---- MODULE Spec2Model ----
(***************************************************************************)
(* Model of the atomic template expression node (check / compute / find /  *)
(* generate) and of the target-directed formulas iteration strategy of the *)
(* inference module (TemplateExpressionNode.cpp).                          *)
(*                                                                         *)
(* The graph store is a set of facts.  A fact is an instance of a template *)
(* (a stored sub-graph pattern) under a binding of the template's          *)
(* variables to nodes.  The searcher, the template manager and the memory  *)
(* context are the collaborators the code calls into; they are modelled by *)
(* what they return for such a store.                                      *)
(***************************************************************************)
EXTENDS Integers, Sequences, FiniteSets, TLC

\* ------------------------------------------------------------------ bounds
\* Nodes that exist in the store before an episode: 1..NumElems.
NumElems == 2
\* Nodes the store can still create: NumElems+1..NumElems+NumCreated.
NumCreated == 1
\* Largest number of facts in an initial store.
MaxInitFacts == 2
\* Largest number of candidate rows handed to an atomic node.
MaxRows == 2
\* Cap of the attempt log of one episode (never reached by the driver).
MaxAttempts == 26

Elems == 1..NumElems
Nodes == 1..(NumElems + NumCreated)

\* ---------------------------------------------------------------- templates
\* Templates of the knowledge base.  P, Q, S have the variable x; R has x and
\* y; U has x and y, but the store reports only x among the bindings of an
\* instantiation; B cannot be instantiated (the store refuses the write).
Templates == {"P", "Q", "S", "R", "U", "B"}

\* templateSearcher->getVarNames(formulaTemplate)
getVarNames(t) == IF t \in {"R", "U"} THEN {"x", "y"} ELSE {"x"}

\* names carried by generationResult.GetReplacements() after HelperGenTemplate
resultNames(t) == IF t = "R" THEN {"x", "y"} ELSE {"x"}

\* whether HelperBuildTemplate / HelperGenTemplate can succeed for a template
buildable(t) == t # "B"

\* The empty Replacements table / the empty ScTemplateParams.
EmptyMap == [n \in {} |-> 0]

\* Op(v), with v evaluated once (a local variable holding v)
Bind(v, Op(_)) == CHOOSE x \in {Op(a) : a \in {v}} : TRUE

\* A fact: an instance of template t under the binding b of its variables.
Fact(t, b) == [t |-> t, b |-> b]

\* ------------------------------------------------------- Replacements utils
\* ReplacementsUtils::getKeySet
getKeySet(replacements) == DOMAIN replacements

\* number of rows of a table (every column has the same length)
rowCount(replacements) ==
  IF DOMAIN replacements = {} THEN 0
  ELSE Len(replacements[CHOOSE n \in DOMAIN replacements : TRUE])

\* Replacements::empty(): the map holds no key
isEmpty(replacements) == DOMAIN replacements = {}

\* ReplacementsUtils::getReplacementsToScTemplateParams: one params per row
getReplacementsToScTemplateParams(replacements) ==
  [i \in 1..rowCount(replacements) |->
     [n \in DOMAIN replacements |-> replacements[n][i]]]

\* ReplacementsUtils::uniteReplacements: rows of a followed by rows of b; an
\* empty table unites as the identity
uniteReplacements(a, b) ==
  IF rowCount(a) = 0 THEN b
  ELSE IF rowCount(b) = 0 THEN a
  ELSE [n \in DOMAIN a \cup DOMAIN b |->
          (IF n \in DOMAIN a THEN a[n] ELSE <<>>) \o
          (IF n \in DOMAIN b THEN b[n] ELSE <<>>)]

\* every key of a table holds exactly rowCount values
aligned(replacements) ==
  \A n \in DOMAIN replacements : Len(replacements[n]) = rowCount(replacements)

\* ----------------------------------------------------------------- searcher
\* order of the rows of a search result: by x, then by y
rowKey(b) ==
  (IF "x" \in DOMAIN b THEN b["x"] ELSE 0) * (NumElems + NumCreated + 1)
    + (IF "y" \in DOMAIN b THEN b["y"] ELSE 0)

RECURSIVE rowsInOrder(_)
rowsInOrder(bs) ==
  IF bs = {} THEN <<>>
  ELSE LET m == CHOOSE b \in bs : \A c \in bs : rowKey(b) <= rowKey(c)
       IN  <<m>> \o rowsInOrder(bs \ {m})

\* the bindings of the instances of t in the store that agree with params
matches(st, t, params) ==
  {f.b : f \in {g \in st : /\ g.t = t
                           /\ \A n \in DOMAIN params \cap getVarNames(t) :
                                g.b[n] = params[n]}}

\* the table of a search result: one column per variable of the template, no
\* key at all when there is no row
rowsToReplacements(t, rows) ==
  IF rows = <<>> THEN EmptyMap
  ELSE [n \in getVarNames(t) |-> [i \in 1..Len(rows) |-> rows[i][n]]]

\* templateSearcher->searchTemplate(formulaTemplate, params): one row per
\* match, no key at all when there is no match
searchTemplate(st, t, params) ==
  Bind(rowsInOrder(matches(st, t, params)),
       LAMBDA rows : rowsToReplacements(t, rows))

\* templateSearcher->searchTemplate(formulaTemplate, paramsVector): the rows of
\* the searches of every params, without duplicates
searchTemplateVector(st, t, paramsVector) ==
  Bind(rowsInOrder(UNION {matches(st, t, paramsVector[i]) :
                            i \in 1..Len(paramsVector)}),
       LAMBDA rows : rowsToReplacements(t, rows))

\* ------------------------------------------------------------ memory context
\* nodes the store has already used
usedNodes(st) == UNION {{f.b[n] : n \in DOMAIN f.b} : f \in st}

\* nodes the store can still create
freeNodes(st) == (Nodes \ Elems) \ usedNodes(st)

\* the k-th smallest element of a set of numbers
RECURSIVE kth(_, _)
kth(S, k) ==
  LET m == CHOOSE a \in S : \A b \in S : a <= b
  IN  IF k <= 1 THEN m ELSE kth(S \ {m}, k - 1)

\* position of a name among the unbound names (x before y)
nameOrder(n) == IF n = "x" THEN 1 ELSE 2
rank(n, unbound) == Cardinality({m \in unbound : nameOrder(m) <= nameOrder(n)})

\* context->HelperBuildTemplate + context->HelperGenTemplate: instantiate t
\* under params; a variable params does not bind gets a newly created node.
\* ok: the write succeeded; fact: what was written; bindings: the result's
\* replacements; elements: the created elements (generationResult[i]).
HelperGenTemplate(st, t, params) ==
  LET unbound == getVarNames(t) \ DOMAIN params
      ok == buildable(t) /\ Cardinality(freeNodes(st)) >= Cardinality(unbound)
      b == [n \in getVarNames(t) |->
              IF n \in DOMAIN params THEN params[n]
              ELSE kth(freeNodes(st), rank(n, unbound))]
  IN  IF ok
      THEN [ok |-> TRUE, fact |-> Fact(t, b),
            bindings |-> [n \in resultNames(t) |-> b[n]],
            elements |-> {Fact(t, b)}]
      ELSE [ok |-> FALSE, fact |-> Fact(t, EmptyMap),
            bindings |-> EmptyMap, elements |-> {}]

\* templateManager->createTemplateParams(formulaTemplate, argumentVector): one
\* params for each argument and each variable of the template
createTemplateParams(t, argumentVector) ==
  LET xs == [i \in 1..Len(argumentVector) |-> [n \in {"x"} |-> argumentVector[i]]]
      ys == IF "y" \in getVarNames(t)
            THEN [i \in 1..Len(argumentVector) |-> [n \in {"y"} |-> argumentVector[i]]]
            ELSE <<>>
  IN  xs \o ys

\* ------------------------------------------------- TemplateExpressionNode
\* TemplateExpressionNode::check: the search is logged, the returned value is
\* the literal true
check(st, t, params) ==
  LET searchResult == searchTemplate(st, t, params)
  IN  [value |-> TRUE, hasSearchResult |-> TRUE,
       templateSearchResult |-> searchResult, formulaTemplate |-> t]

\* TemplateExpressionNode::compute
compute(st, t, argumentVector, result) ==
  Bind(IF argumentVector # <<>>
       THEN searchTemplateVector(st, t, createTemplateParams(t, argumentVector))
       ELSE searchTemplate(st, t, EmptyMap),
       LAMBDA replacements : [result EXCEPT !.replacements = replacements,
                                            !.value = ~isEmpty(replacements)])

\* TemplateExpressionNode::find
find(st, t, replacements) ==
  Bind(searchTemplateVector(st, t, getReplacementsToScTemplateParams(replacements)),
       LAMBDA found : [value |-> ~isEmpty(found), isGenerated |-> FALSE,
                       replacements |-> found])

\* alreadyHolds without the existence search: every row is written
alreadyHoldsNever(st, t, params) == FALSE

\* The pre-write existence search of one row (lines 117-119): whether the row
\* is skipped because the pattern already has a match under its params.
alreadyHolds(st, t, params) == ~isEmpty(searchTemplate(st, t, params))

\* resolveName reading the params only
resolveNameParamsOnly(name, gen, params) ==
  IF name \in DOMAIN params THEN <<params[name]>> ELSE <<>>

\* The value of one name of a written row (lines 134-145): from the result's
\* bindings, else from the params.
resolveName(name, gen, params) ==
  IF name \in DOMAIN gen.bindings THEN <<gen.bindings[name]>>
  ELSE <<params[name]>>

\* registered with the created elements added before the names are resolved
registeredAlways(gen, threw) == gen.elements

\* lines 144-155: the created elements added to the output structure; the
\* loop of addToSet is not reached when line 144 throws
registered(gen, threw) == IF threw THEN {} ELSE gen.elements

\* One iteration of the loop over paramsVector (lines 112-157); writeRow is
\* its part after HelperGenTemplate (lines 126-155).  acc is the
\* state of the call: the store, the output structure, the result so far, the
\* number of searches and writes issued, thrown (ExceptionInvalidState), and
\* rows: for each row the loop body ran for, its params, whether the store
\* held a match before it, and whether it was written.
writeRow(acc, t, params, varNames, gen) ==
  LET lost == {n \in varNames : n \notin DOMAIN gen.bindings /\ n \notin DOMAIN params}
      row == [params |-> params, wrote |-> gen.ok,
              held |-> matches(acc.store, t, params) # {}]
  IN  IF ~gen.ok
      THEN [acc EXCEPT !.searches = @ + 1, !.rows = Append(@, row)]
      ELSE IF lost # {}
           THEN [acc EXCEPT !.searches = @ + 1, !.writes = @ + 1,
                            !.rows = Append(@, row),
                            !.store = @ \cup {gen.fact},
                            !.count = @ + 1, !.isGenerated = TRUE,
                            !.value = TRUE, !.thrown = TRUE,
                            !.output = @ \cup registered(gen, TRUE)]
      ELSE [acc EXCEPT !.searches = @ + 1, !.writes = @ + 1,
                       !.rows = Append(@, row),
                       !.store = @ \cup {gen.fact},
                       !.count = @ + 1, !.isGenerated = TRUE,
                       !.value = TRUE,
                       !.replacements = uniteReplacements(@,
                          [n \in varNames |-> resolveName(n, gen, params)]),
                       !.output = @ \cup registered(gen, FALSE)]

\* stopsIteration without the break of line 115
stopsIterationNever(generateOnlyFirst, isGenerated) == FALSE

\* lines 114-115: the loop is left once a row was written under generateOnlyFirst
stopsIteration(generateOnlyFirst, isGenerated) == generateOnlyFirst /\ isGenerated

generateRow(acc, t, params, varNames, generateOnlyFirst) ==
  IF acc.thrown \/ stopsIteration(generateOnlyFirst, acc.isGenerated) THEN acc
  ELSE IF alreadyHolds(acc.store, t, params)
       THEN [acc EXCEPT !.searches = @ + 1,
                        !.rows = Append(@, [params |-> params, wrote |-> FALSE,
                                  held |-> matches(acc.store, t, params) # {}])]
  ELSE Bind(HelperGenTemplate(acc.store, t, params),
            LAMBDA gen : writeRow(acc, t, params, varNames, gen))

\* the loop of lines 112-157 from row i on
RECURSIVE generateRows(_, _, _, _, _, _)
generateRows(acc, t, paramsVector, i, varNames, generateOnlyFirst) ==
  IF i > Len(paramsVector) THEN acc
  ELSE Bind(generateRow(acc, t, paramsVector[i], varNames, generateOnlyFirst),
            LAMBDA a : generateRows(a, t, paramsVector, i + 1, varNames,
                                    generateOnlyFirst))

\* fallsBack without the test of line 105
fallsBackNever(paramsVector) == FALSE

\* line 105: generate returns compute's result when there is no candidate row
fallsBack(paramsVector) == paramsVector = <<>>

\* TemplateExpressionNode::generate.  value0 is the content of the result's
\* value member before the call assigns it (the member is not initialised).
\* The outcome holds the returned result (value, isGenerated, replacements),
\* the store and the output structure after the call, and thrown.
\* generateWith is the body from line 105 on, paramsVector and varNames given.
generateWith(st, out, t, paramsVector, varNames, argumentVector, generateOnlyFirst, value0) ==
  LET start == [store |-> st, output |-> out, value |-> value0,
                isGenerated |-> FALSE, replacements |-> EmptyMap,
                count |-> 0, searches |-> 0, writes |-> 0, thrown |-> FALSE,
                rows |-> <<>>]
  IN  IF fallsBack(paramsVector)
      THEN Bind(compute(st, t, argumentVector,
                        [value |-> value0, isGenerated |-> FALSE,
                         replacements |-> EmptyMap]),
                LAMBDA r : [start EXCEPT !.value = r.value,
                                         !.replacements = r.replacements,
                                         !.searches = 1])
      ELSE generateRows(start, t, paramsVector, 1, varNames, generateOnlyFirst)

generate(st, out, t, replacements, argumentVector, generateOnlyFirst, value0) ==
  Bind(getReplacementsToScTemplateParams(replacements),
       LAMBDA paramsVector :
         generateWith(st, out, t, paramsVector,
                      getKeySet(replacements) \cup getVarNames(t),
                      argumentVector, generateOnlyFirst, value0))

\* ------------------------------------------------------------------- state
VARIABLES
  store,                     \* the facts of the graph store
  outputStructure,           \* elements registered by GenerationUtils::addToSet
  solutionTree,              \* nodes added by solutionTreeManager->addNode
  searchCalls,               \* searchTemplate calls issued by the episode so far
  writeCalls,                \* successful HelperGenTemplate calls of the episode so far
  formulasQueuesByPriority,  \* the rule tiers, highest priority first
  targetStructure,           \* the target template
  templateParamsVector,      \* createTemplateParams(targetStructure)
  generateOnlyFirst,         \* policy flag of the atomic nodes
  generateSolutionTree,      \* whether firings are recorded
  entryStore,                \* the store when applyIterationStrategy was entered
  pc,                        \* position in applyIterationStrategy
  formulasQueueIndex,
  checkedFormulas,
  uncheckedFormulas,
  targetAchieved,
  returned,                  \* the value returned ("none" before the return)
  thrown,                    \* the exception that left the call ("none" if none)
  attempts,                  \* log of the useFormula calls of the episode
  resets,                    \* number of times line 237 set the index to 0
  node,                      \* the atomic node and the inputs of its calls
  last                       \* the latest call on the node and its outcome

storeVars == <<store, outputStructure, solutionTree, searchCalls, writeCalls>>
inputVars == <<formulasQueuesByPriority, targetStructure, templateParamsVector,
               generateOnlyFirst, generateSolutionTree, entryStore>>
loopVars == <<formulasQueueIndex, checkedFormulas, uncheckedFormulas,
              targetAchieved, returned, thrown, attempts, resets>>
nodeVars == <<node, last>>
vars == <<storeVars, inputVars, pc, loopVars, nodeVars>>

\* ----------------------------------------------------------------- formulas
\* A formula (rule): the template searched for candidate rows and the
\* template generated under them.
Formula(p, q) == [premise |-> p, conclusion |-> q]
CoreFormulas == {Formula("P", "Q"), Formula("S", "P"), Formula("Q", "S")}

\* queues of distinct formulas
RECURSIVE distinctSeqs(_)
distinctSeqs(S) ==
  {<<>>} \cup UNION {{<<f>> \o q : q \in distinctSeqs(S \ {f})} : f \in S}

flatten(queues) ==
  LET RECURSIVE go(_)
      go(i) == IF i > Len(queues) THEN <<>> ELSE queues[i] \o go(i + 1)
  IN  go(1)

range(q) == {q[i] : i \in 1..Len(q)}

\* every arrangement of core formulas into non-empty tiers, no formula twice
CoreTiers ==
  LET queues == distinctSeqs(CoreFormulas) \ {<<>>}
      n == Cardinality(CoreFormulas)
  IN  {c \in UNION {[1..k -> queues] : k \in 0..n} :
         Len(flatten(c)) = Cardinality(range(flatten(c)))}

\* tiers with an empty queue, with a formula whose write the store refuses
\* (B), whose instantiation creates a node (R) and whose instantiation loses
\* a variable (U)
SpecialTiers ==
  { << <<>>, <<Formula("P", "Q")>> >>,
    << <<Formula("P", "B"), Formula("P", "Q")>>, <<Formula("S", "P")>> >>,
    << <<Formula("S", "R")>>, <<Formula("P", "Q")>> >>,
    << <<Formula("P", "Q")>>, <<Formula("P", "U"), Formula("S", "P")>> >> }

\* groundings of the target: none, the last node, or every node in order
TargetParams ==
  {<<>>, <<[n \in {"x"} |-> NumElems]>>, [i \in Elems |-> [n \in {"x"} |-> i]]}

\* initial stores of an episode
DriverFacts == {Fact(t, b) : t \in {"P", "Q", "S"}, b \in [{"x"} -> Elems]}
DriverStores == {st \in SUBSET DriverFacts : Cardinality(st) <= MaxInitFacts}

\* --------------------------------------------- FormulasIterationStrategyTarget
\* FormulasIterationStrategyTarget::isTargetAchieved
isTargetAchieved(st, target, paramsVector) ==
  \E i \in 1..Len(paramsVector) : ~isEmpty(searchTemplate(st, target, paramsVector[i]))

\* searches issued by the any_of of isTargetAchieved (it stops at the first hit)
targetTestSearches(st, target, paramsVector) ==
  LET hits == {i \in 1..Len(paramsVector) :
                 ~isEmpty(searchTemplate(st, target, paramsVector[i]))}
  IN  IF hits = {} THEN Len(paramsVector)
      ELSE CHOOSE i \in hits : \A j \in hits : i <= j

\* FormulasIterationStrategyAbstract::useFormula: the candidate rows are the
\* unconstrained search of the formula's premise; the conclusion is generated
\* under them
useFormula(st, out, formula, onlyFirst) ==
  Bind(compute(st, formula.premise, <<>>,
               [value |-> FALSE, isGenerated |-> FALSE, replacements |-> EmptyMap]),
       LAMBDA rows :
         Bind(generate(st, out, formula.conclusion, rows.replacements, <<>>,
                       onlyFirst, FALSE),
              LAMBDA g : [g EXCEPT !.searches = @ + 1]))

\* entryOutcome with the validation before the target test's early return
entryOutcomeValidatesFirst(achieved, queues) ==
  IF queues = <<>> THEN "throw"
  ELSE IF achieved THEN "return"
  ELSE "loop"

\* entryOutcome without the early return of lines 189-193
entryOutcomeNoEarlyReturn(achieved, queues) ==
  IF queues = <<>> THEN "throw" ELSE "loop"

\* entryOutcome without the validation of lines 196-199
entryOutcomeNoValidation(achieved, queues) ==
  IF achieved THEN "return" ELSE "loop"

\* lines 189-199: what applyIterationStrategy does after the entry target test
entryOutcome(achieved, queues) ==
  IF achieved THEN "return"
  ELSE IF queues = <<>> THEN "throw"
  ELSE "loop"

\* line 207: the condition of the for loop
forContinues(index, queues, achieved) == index < Len(queues) /\ ~achieved

\* nextIndex stepping over a tier
nextIndexSkips(index) == index + 2

\* line 208: the increment of the for loop
nextIndex(index) == index + 1

\* line 215: the formula tried next
front(queue) == Head(queue)

\* breaksOnTarget without the break of line 232
breaksOnTargetNever(achieved) == FALSE

\* lines 228-233: whether a firing that achieved the target leaves the loop
breaksOnTarget(achieved) == achieved

\* propagates with the exception caught around useFormula
propagatesNever(threw) == FALSE

\* line 217: no handler surrounds useFormula, an exception leaves the function
propagates(threw) == threw

\* recordsNode recording every attempt, generated or not
recordsNodeAlways(isGenerated, recording) == recording

\* lines 219-221: whether the attempt's formula is recorded in the solution tree
recordsNode(isGenerated, recording) == isGenerated /\ recording

\* lines 223-226, solutionTreeManager->addNode: a node with the formula, the
\* params of the result's rows and the names of its columns is appended
addNode(tree, formula, replacements) ==
  Append(tree, [formula |-> formula,
                params |-> getReplacementsToScTemplateParams(replacements),
                varNames |-> getKeySet(replacements)])

\* ContainersUtils::addToQueue: push every element of the vector to the queue
addToQueue(vector, queue) == queue \o vector

\* afterFiring dropping the checked formulas instead of requeueing them
afterFiringDropsChecked(checked, unchecked, index) ==
  [unchecked |-> Tail(unchecked), checked |-> <<>>, index |-> 0]

\* lines 236-238 and 246: a firing that did not achieve the target
afterFiring(checked, unchecked, index) ==
  [unchecked |-> Tail(addToQueue(checked, unchecked)),
   checked |-> <<>>, index |-> 0]

\* afterFailure without the pop of line 246
afterFailureNoPop(checked, unchecked, index, formula) ==
  [unchecked |-> unchecked,
   checked |-> Append(checked, formula), index |-> index]

\* lines 243 and 246: an attempt that generated nothing
afterFailure(checked, unchecked, index, formula) ==
  [unchecked |-> Tail(unchecked),
   checked |-> Append(checked, formula), index |-> index]

\* ------------------------------------------------------------------ episode
NoNode == [formulaTemplate |-> "none"]
NoCall == [op |-> "none"]

Init ==
  /\ store \in DriverStores
  /\ outputStructure = {}
  /\ solutionTree = <<>>
  /\ searchCalls = 0
  /\ writeCalls = 0
  /\ formulasQueuesByPriority \in CoreTiers \cup SpecialTiers
  /\ targetStructure = "Q"
  /\ templateParamsVector \in TargetParams
  /\ generateOnlyFirst \in BOOLEAN
  /\ generateSolutionTree \in BOOLEAN
  /\ entryStore = store
  /\ pc = "idle"
  /\ formulasQueueIndex = 0
  /\ checkedFormulas = <<>>
  /\ uncheckedFormulas = <<>>
  /\ targetAchieved = FALSE
  /\ returned = "none"
  /\ thrown = "none"
  /\ attempts = <<>>
  /\ resets = 0
  /\ node = NoNode
  /\ last = NoCall

\* loopHead returning false whatever targetAchieved holds
loopHeadReturnsFalse(index, achieved, unchecked) ==
  IF forContinues(index, formulasQueuesByPriority, achieved)
  THEN [pc |-> "while", unchecked |-> formulasQueuesByPriority[index + 1],
        returned |-> "none"]
  ELSE [pc |-> "done", unchecked |-> unchecked, returned |-> FALSE]

\* lines 207-210 and 250: the head of the for loop; either the tier's queue is
\* copied and the while loop entered, or targetAchieved is returned
loopHead(index, achieved, unchecked) ==
  IF forContinues(index, formulasQueuesByPriority, achieved)
  THEN [pc |-> "while", unchecked |-> formulasQueuesByPriority[index + 1],
        returned |-> "none"]
  ELSE [pc |-> "done", unchecked |-> unchecked, returned |-> achieved]

\* lines 186-210: the entry target test, the early return, the rule-set
\* validation and the first pass through the head of the for loop
Enter ==
  /\ pc = "idle"
  /\ \E achieved \in {isTargetAchieved(store, targetStructure, templateParamsVector)} :
     \E outcome \in {entryOutcome(achieved, formulasQueuesByPriority)} :
     \E head \in {loopHead(0, achieved, uncheckedFormulas)} :
       /\ targetAchieved' = achieved
       /\ searchCalls' = searchCalls
            + targetTestSearches(store, targetStructure, templateParamsVector)
       /\ pc' = CASE outcome = "return" -> "done"
                  [] outcome = "throw" -> "error"
                  [] OTHER -> head.pc
       /\ returned' = CASE outcome = "return" -> FALSE
                        [] outcome = "throw" -> returned
                        [] OTHER -> head.returned
       /\ thrown' = IF outcome = "throw" THEN "ItemNotFound" ELSE thrown
       /\ uncheckedFormulas' = IF outcome = "loop" THEN head.unchecked
                               ELSE uncheckedFormulas
  /\ UNCHANGED <<store, outputStructure, solutionTree, writeCalls, inputVars,
                 formulasQueueIndex, checkedFormulas, attempts, resets, nodeVars>>

\* lines 213 and 207-210: the queue is drained, the index is incremented and
\* the head of the for loop is passed again
NextTier ==
  /\ pc = "while"
  /\ uncheckedFormulas = <<>>
  /\ \E index \in {nextIndex(formulasQueueIndex)} :
     \E head \in {loopHead(index, targetAchieved, uncheckedFormulas)} :
       /\ formulasQueueIndex' = index
       /\ pc' = head.pc
       /\ uncheckedFormulas' = head.unchecked
       /\ returned' = head.returned
  /\ UNCHANGED <<storeVars, inputVars, checkedFormulas, targetAchieved, thrown,
                 attempts, resets, nodeVars>>

\* lines 213-247: one iteration of the while loop; after the break of line 232
\* the index is incremented and the head of the for loop returns
TryFormula ==
  /\ pc = "while"
  /\ uncheckedFormulas # <<>>
  /\ Len(attempts) < MaxAttempts
  /\ \E formula \in {front(uncheckedFormulas)} :
     \E r \in {useFormula(store, outputStructure, formula, generateOnlyFirst)} :
     \E achieved \in {isTargetAchieved(r.store, targetStructure, templateParamsVector)} :
     LET tested == ~r.thrown /\ r.isGenerated
         leaves == tested /\ breaksOnTarget(achieved)
         next == IF tested
                 THEN afterFiring(checkedFormulas, uncheckedFormulas, formulasQueueIndex)
                 ELSE afterFailure(checkedFormulas, uncheckedFormulas,
                                   formulasQueueIndex, formula)
         head == loopHead(nextIndex(formulasQueueIndex), achieved, uncheckedFormulas)
     IN  /\ store' = r.store
         /\ outputStructure' = r.output
         /\ writeCalls' = writeCalls + r.writes
         /\ searchCalls' = searchCalls + r.searches
              + (IF tested
                 THEN targetTestSearches(r.store, targetStructure, templateParamsVector)
                 ELSE 0)
         /\ attempts' = Append(attempts,
              [formula |-> formula, tier |-> formulasQueueIndex,
               queue |-> uncheckedFormulas, checked |-> checkedFormulas,
               isGenerated |-> r.isGenerated, thrown |-> r.thrown,
               achieved |-> tested /\ achieved,
               rows |-> r.rows, replacements |-> r.replacements])
         /\ solutionTree' = IF recordsNode(tested, generateSolutionTree)
                            THEN addNode(solutionTree, formula, r.replacements)
                            ELSE solutionTree
         /\ targetAchieved' = IF tested THEN achieved ELSE targetAchieved
         /\ thrown' = IF propagates(r.thrown) THEN "InvalidState" ELSE thrown
         /\ resets' = IF tested /\ ~leaves THEN resets + 1 ELSE resets
         /\ IF propagates(r.thrown)
            THEN /\ pc' = "error"
                 /\ UNCHANGED <<formulasQueueIndex, checkedFormulas,
                                uncheckedFormulas, returned>>
            ELSE IF leaves
            THEN /\ pc' = head.pc
                 /\ formulasQueueIndex' = nextIndex(formulasQueueIndex)
                 /\ uncheckedFormulas' = head.unchecked
                 /\ returned' = head.returned
                 /\ UNCHANGED checkedFormulas
            ELSE /\ pc' = "while"
                 /\ formulasQueueIndex' = next.index
                 /\ checkedFormulas' = next.checked
                 /\ uncheckedFormulas' = next.unchecked
                 /\ UNCHANGED returned
  /\ UNCHANGED <<inputVars, nodeVars>>

Next == Enter \/ NextTier \/ TryFormula

Spec == Init /\ [][Next]_vars

\* The episode runs to its end: the code has no suspension point.
SpecLive == Init /\ [][Next]_vars /\ WF_vars(Next)

\* ---------------------------------------------------------- the atomic node
\* candidate tables: up to MaxRows rows (a row may repeat) over x in
\* non-decreasing order, alone or with a column y that holds the node after x
xColumns ==
  {c \in UNION {[1..k -> Elems] : k \in 1..MaxRows} :
     \A i \in 1..(Len(c) - 1) : c[i] <= c[i + 1]}
CandidateRows ==
  {EmptyMap} \cup {[n \in {"x"} |-> c] : c \in xColumns}
    \cup {[n \in {"x", "y"} |->
             IF n = "x" THEN c ELSE [i \in DOMAIN c |-> (c[i] % NumElems) + 1]] :
            c \in xColumns}

\* the facts of one template over the nodes that exist before the calls
NodeFacts(t) == {Fact(t, b) : b \in [getVarNames(t) -> Elems]}
NodeStores(t) == {st \in SUBSET NodeFacts(t) : Cardinality(st) <= MaxInitFacts}

\* A node over one template with the inputs of its calls: the candidate rows
\* of find and generate, the params of check (the first candidate row) and
\* the argument vector of compute.
InitNode ==
  /\ \E t \in {"P", "R", "U", "B"} :
       /\ store \in NodeStores(t)
       /\ \E rows \in CandidateRows, args \in {<<>>} \cup {<<e>> : e \in Elems} :
            /\ rows = EmptyMap \/ args = <<>>
            /\ node = [formulaTemplate |-> t, replacements |-> rows,
                       params |-> IF rows = EmptyMap THEN EmptyMap
                                  ELSE getReplacementsToScTemplateParams(rows)[1],
                       argumentVector |-> args]
  /\ outputStructure = {}
  /\ solutionTree = <<>>
  /\ searchCalls = 0
  /\ writeCalls = 0
  /\ formulasQueuesByPriority = <<>>
  /\ targetStructure = "Q"
  /\ templateParamsVector = <<>>
  /\ generateOnlyFirst \in BOOLEAN
  /\ generateSolutionTree = FALSE
  /\ entryStore = store
  /\ pc = "off"
  /\ formulasQueueIndex = 0
  /\ checkedFormulas = <<>>
  /\ uncheckedFormulas = <<>>
  /\ targetAchieved = FALSE
  /\ returned = "none"
  /\ thrown = "none"
  /\ attempts = <<>>
  /\ resets = 0
  /\ last = NoCall

\* what a call leaves unchanged besides the store
nodeFrame == <<solutionTree, inputVars, pc, loopVars, node>>

\* a call of TemplateExpressionNode::check
DoCheck ==
  /\ node # NoNode
  /\ \E r \in {check(store, node.formulaTemplate, node.params)} :
       /\ last' = [op |-> "check", value |-> r.value,
                   replacements |-> r.templateSearchResult,
                   before |-> store, after |-> store, writes |-> 0]
  /\ UNCHANGED <<store, outputStructure, searchCalls, writeCalls, nodeFrame>>

\* a call of TemplateExpressionNode::compute
DoCompute ==
  /\ node # NoNode
  /\ \E value0 \in BOOLEAN :
     \E r \in {compute(store, node.formulaTemplate, node.argumentVector,
                       [value |-> value0, isGenerated |-> FALSE,
                        replacements |-> EmptyMap])} :
       /\ last' = [op |-> "compute", value |-> r.value,
                   replacements |-> r.replacements,
                   before |-> store, after |-> store, writes |-> 0]
  /\ UNCHANGED <<store, outputStructure, searchCalls, writeCalls, nodeFrame>>

\* a call of TemplateExpressionNode::find
DoFind ==
  /\ node # NoNode
  /\ \E r \in {find(store, node.formulaTemplate, node.replacements)} :
       /\ last' = [op |-> "find", value |-> r.value,
                   replacements |-> r.replacements,
                   before |-> store, after |-> store, writes |-> 0]
  /\ UNCHANGED <<store, outputStructure, searchCalls, writeCalls, nodeFrame>>

\* a call of TemplateExpressionNode::generate; value0 is what the result's
\* value member holds before the call assigns it; again tells that the call
\* before was a generate too (same node, same candidate rows), and
\* writesBefore what that call wrote
DoGenerate ==
  /\ node # NoNode
  /\ \E value0 \in BOOLEAN :
     \E r \in {generate(store, outputStructure, node.formulaTemplate,
                        node.replacements, node.argumentVector,
                        generateOnlyFirst, value0)} :
       /\ last' = [op |-> "generate", value |-> r.value,
                   again |-> last.op = "generate",
                   writesBefore |-> IF last.op = "generate" THEN last.writes ELSE 0,
                   isGenerated |-> r.isGenerated,
                   replacements |-> r.replacements, thrown |-> r.thrown,
                   rows |-> r.rows, outputBefore |-> outputStructure,
                   before |-> store, after |-> r.store, writes |-> r.writes]
       /\ store' = r.store
       /\ outputStructure' = r.output
  /\ UNCHANGED <<searchCalls, writeCalls, nodeFrame>>

NextNode == DoCheck \/ DoCompute \/ DoFind \/ DoGenerate

SpecNode == InitNode /\ [][NextNode]_vars

\* ------------------------------------------------------------------ claims
\* 0-based index of the tier that holds a formula
tierOf(f) ==
  (CHOOSE i \in 1..Len(formulasQueuesByPriority) :
     f \in range(formulasQueuesByPriority[i])) - 1

allFormulas == range(flatten(formulasQueuesByPriority))
attemptFormulas == [i \in 1..Len(attempts) |-> attempts[i].formula]
fired(i) == attempts[i].isGenerated /\ ~attempts[i].thrown
achievedAtEntry == isTargetAchieved(entryStore, targetStructure, templateParamsVector)
applicable(f) == useFormula(store, outputStructure, f, generateOnlyFirst).isGenerated
isPrefix(a, b) == Len(a) <= Len(b) /\ \A i \in 1..Len(a) : a[i] = b[i]

\* C1: when the target is satisfied at entry, applyIterationStrategy returns
\* false, tries no formula and leaves the store, the output structure and the
\* solution tree as they were.
C1_NoOpOnSatisfiedTarget ==
  (pc # "idle" /\ achievedAtEntry) =>
    /\ pc = "done" /\ returned = FALSE /\ thrown = "none"
    /\ attempts = <<>> /\ writeCalls = 0
    /\ store = entryStore /\ outputStructure = {} /\ solutionTree = <<>>

\* C1 witness: the episode returned on a satisfied target although a rule of
\* its tiers would have fired.
C1_Witness ==
  /\ pc = "done" /\ achievedAtEntry
  /\ \E f \in allFormulas : applicable(f)

\* C2 as stated: the configuration error is raised before any gateway call,
\* neither a search nor a write was issued.
C2_NoGatewayCallBeforeError ==
  thrown = "ItemNotFound" => (searchCalls = 0 /\ writeCalls = 0)

\* C2 amended: with no tier and a target not satisfied at entry, the episode
\* ends with the configuration error before any formula is tried and before
\* any write; the searches of the entry target test, one per grounding of the
\* target, are the only gateway calls issued.
C2_NoWriteBeforeError ==
  (pc # "idle" /\ formulasQueuesByPriority = <<>> /\ ~achievedAtEntry) =>
    /\ pc = "error" /\ thrown = "ItemNotFound" /\ returned = "none"
    /\ attempts = <<>> /\ writeCalls = 0
    /\ searchCalls = Len(templateParamsVector)
    /\ store = entryStore /\ outputStructure = {} /\ solutionTree = <<>>

\* C2 witness: the error was raised after the target test searched the store.
C2_Witness == thrown = "ItemNotFound" /\ searchCalls > 0 /\ store # {}

\* C3: every attempt tries the front of the working queue; an attempt that
\* generates nothing puts its formula at the end of checked; the attempt whose
\* firing satisfies the target is the last attempt of the episode, the loop is
\* left at once and true is returned.
C3_StopOnTarget ==
  /\ \A i \in 1..Len(attempts) :
       /\ attempts[i].formula = Head(attempts[i].queue)
       /\ attempts[i].achieved =>
            /\ i = Len(attempts)
            /\ pc = "done"
            /\ targetAchieved
            /\ returned = TRUE
       /\ (~attempts[i].isGenerated /\ ~attempts[i].thrown) =>
            (IF i < Len(attempts) THEN attempts[i + 1].checked ELSE checkedFormulas)
              = Append(attempts[i].checked, attempts[i].formula)
  /\ (pc = "done" /\ returned = TRUE) =>
       (attempts # <<>> /\ attempts[Len(attempts)].achieved)

\* C3 witness: the first formula of the tier failed, the second fired and
\* satisfied the target; a formula still waits in the queue, one is held in
\* checked and a later tier was never loaded.
C3_Witness ==
  /\ pc = "done" /\ returned = TRUE
  /\ Len(attempts) = 2 /\ ~attempts[1].isGenerated /\ attempts[2].achieved
  /\ checkedFormulas # <<>>
  /\ formulasQueueIndex < Len(formulasQueuesByPriority)

\* C4: as long as no formula has fired, the formulas tried are the formulas of
\* the tiers in tier order and queue order, each once, under the index of its
\* own tier, and the index was never reset; when the episode ends so, every
\* formula was tried and false is returned.
C4_Exhaustion ==
  (~achievedAtEntry /\ \A i \in 1..Len(attempts) : ~attempts[i].isGenerated) =>
    /\ isPrefix(attemptFormulas, flatten(formulasQueuesByPriority))
    /\ \A i \in 1..Len(attempts) : attempts[i].tier = tierOf(attempts[i].formula)
    /\ resets = 0
    /\ store = entryStore
    /\ pc = "done" =>
         /\ attemptFormulas = flatten(formulasQueuesByPriority)
         /\ returned = FALSE

\* C4 witness: an episode over several tiers ended after three failed
\* attempts.
C4_Witness ==
  /\ pc = "done" /\ ~achievedAtEntry
  /\ Len(formulasQueuesByPriority) >= 2 /\ Len(attempts) = 3
  /\ \A i \in 1..Len(attempts) : ~attempts[i].isGenerated

firings == Cardinality({i \in 1..Len(attempts) : fired(i)})

\* C5: every episode ends; one that ends without an exception has returned
\* true (the target was achieved) or false (the tiers are exhausted).  Every
\* firing added a fact to the store, so there are at most as many firings and
\* index resets as facts added, and the attempt log stays below its cap.
C5_Termination ==
  /\ <>(pc \in {"done", "error"})
  /\ [](/\ firings <= Cardinality(store \ entryStore)
        /\ resets <= firings
        /\ entryStore \subseteq store
        /\ Len(attempts) < MaxAttempts
        /\ pc = "done" => (returned \in BOOLEAN /\ thrown = "none")
        /\ pc = "error" => (returned = "none" /\ thrown # "none"))

\* C5 witness: an episode returned after the index was reset three times.
C5_Witness == pc = "done" /\ resets >= 3 /\ Len(attempts) >= 6

\* C6 as stated: when the episode ends with the tiers exhausted and the target
\* not reached, no formula of any tier is applicable in the final store.
C6_FixpointComplete ==
  (pc = "done" /\ ~achievedAtEntry /\ returned = FALSE) =>
    \A f \in allFormulas : ~applicable(f)

\* C7 as stated: after a firing that does not satisfy the target, checked is
\* empty, the index is 0 and the formula tried next is a formula of the first
\* tier.
C7_RestartFromFirstTier ==
  \A i \in 1..(Len(attempts) - 1) :
    (fired(i) /\ ~attempts[i].achieved /\ formulasQueuesByPriority[1] # <<>>) =>
      /\ attempts[i + 1].checked = <<>>
      /\ attempts[i + 1].formula \in range(formulasQueuesByPriority[1])

\* C8: generate never writes a row whose template already has a match under
\* the row's params; and a generate that follows a generate on the same node
\* with a single candidate row writes nothing, reports isGenerated = false and
\* leaves the store as it was.
C8_GenerateDedup ==
  last.op = "generate" =>
    /\ \A i \in 1..Len(last.rows) : last.rows[i].wrote => ~last.rows[i].held
    /\ (last.again /\ rowCount(node.replacements) = 1) =>
         /\ last.writes = 0
         /\ ~last.isGenerated
         /\ last.after = last.before

\* C8 witness: the first generate wrote the single candidate row; the second
\* found the row's match and wrote nothing.
C8_Witness ==
  /\ last.op = "generate" /\ last.again /\ last.writesBefore = 1
  /\ rowCount(node.replacements) = 1
  /\ Len(last.rows) = 1 /\ last.rows[1].held /\ ~last.rows[1].wrote
  /\ last.writes = 0

\* C9 as stated: the value check returns is true exactly when the search of
\* the template under the params has a row; check writes nothing.
C9_CheckCorrect ==
  last.op = "check" =>
    /\ last.value = (rowCount(searchTemplate(store, node.formulaTemplate,
                                             node.params)) > 0)
    /\ last.after = last.before

\* C10: when a formula is tried, every formula of every tier of higher
\* priority has been tried before in the episode.
C10_TierPriority ==
  \A i \in 1..Len(attempts) :
    \A j \in 1..tierOf(attempts[i].formula) :
      \A f \in range(formulasQueuesByPriority[j]) :
        \E h \in 1..(i - 1) : attempts[h].formula = f

\* C10 witness: a formula of the third tier was tried after a firing had
\* reset the index.
C10_Witness ==
  \E i \in 1..Len(attempts) :
    /\ tierOf(attempts[i].formula) = 2
    /\ \E h \in 1..(i - 1) : fired(h)

\* the target test on the store as it is now
achievedNow == isTargetAchieved(store, targetStructure, templateParamsVector)

\* every tier was passed and the working queue is empty
drained ==
  formulasQueueIndex = Len(formulasQueuesByPriority) /\ uncheckedFormulas = <<>>

\* C11: true is returned only when the last attempt fired and the target test
\* after it succeeded, and then the target holds in the final store; false is
\* returned exactly when the target held at entry or the tiers were drained
\* with the target not holding in the final store.
C11_ResultSound ==
  pc = "done" =>
    /\ returned = TRUE =>
         /\ ~achievedAtEntry
         /\ attempts # <<>>
         /\ fired(Len(attempts)) /\ attempts[Len(attempts)].achieved
         /\ achievedNow
    /\ returned = FALSE <=>
         \/ achievedAtEntry
         \/ drained /\ ~achievedNow /\ ~targetAchieved

\* C11 witness: true was returned by a firing that followed a firing which
\* had not satisfied the target.
C11_Witness ==
  /\ pc = "done" /\ returned = TRUE
  /\ resets >= 1 /\ firings >= 2

\* the formulas of the attempts that fired, in attempt order
RECURSIVE firedFormulas(_)
firedFormulas(n) ==
  IF n = 0 THEN <<>>
  ELSE IF fired(n) THEN Append(firedFormulas(n - 1), attempts[n].formula)
       ELSE firedFormulas(n - 1)

\* C12: with recording on, the formulas of the solution tree's nodes are the
\* formulas that fired so far, in firing order, one node per firing, each
\* with the rows and the column names of the firing's result; with recording
\* off the tree stays empty; a step only appends to the tree.
C12_SolutionTreeLog ==
  /\ [](IF generateSolutionTree
        THEN /\ [i \in 1..Len(solutionTree) |-> solutionTree[i].formula]
                  = firedFormulas(Len(attempts))
             /\ \A i \in 1..Len(solutionTree) :
                  /\ solutionTree[i].params # <<>>
                  /\ \A j \in 1..Len(solutionTree[i].params) :
                       DOMAIN solutionTree[i].params[j] = solutionTree[i].varNames
        ELSE solutionTree = <<>>)
  /\ [][/\ isPrefix(solutionTree, solutionTree')
        /\ Len(solutionTree') <= Len(solutionTree) + 1]_vars

\* C12 witness: two firings are recorded, a failed attempt between or around
\* them is not, and the last node is the firing that satisfied the target.
C12_Witness ==
  /\ generateSolutionTree /\ pc = "done" /\ returned = TRUE
  /\ Len(solutionTree) = 2 /\ Len(attempts) >= 3
  /\ solutionTree[1].formula # solutionTree[2].formula

\* some row the loop body ran for was written or had a match before it
someRowWroteOrHeld ==
  \E i \in 1..Len(last.rows) : last.rows[i].wrote \/ last.rows[i].held

\* C13 as stated: the value generate returns over non-empty candidate rows is
\* true exactly when some row was written or already had a match.
C13_ValueReflectsRows ==
  (last.op = "generate" /\ rowCount(node.replacements) > 0 /\ ~last.thrown) =>
    last.value = someRowWroteOrHeld

\* the params of the candidate rows of the node, in row order
nodeParamsVector == getReplacementsToScTemplateParams(node.replacements)

\* C14: under generateOnlyFirst a generate call writes at most once; the rows
\* the loop body ran for are the first candidate rows in order, a written row
\* is the last of them, and as long as no row was written every candidate
\* row is searched (a row skipped for its match does not stop the loop).
C14_GenerateOnlyFirst ==
  (last.op = "generate" /\ generateOnlyFirst /\ rowCount(node.replacements) > 0) =>
    /\ last.writes <= 1
    /\ Len(last.rows) <= Len(nodeParamsVector)
    /\ \A i \in 1..Len(last.rows) :
         /\ last.rows[i].params = nodeParamsVector[i]
         /\ last.rows[i].wrote => i = Len(last.rows)
    /\ (\A i \in 1..Len(last.rows) : ~last.rows[i].wrote) =>
         Len(last.rows) = Len(nodeParamsVector)
    /\ Cardinality(last.after \ last.before) = last.writes

\* C14 witness: the call before wrote one row and stopped; this call skipped
\* that row for its match, went on and wrote the second row.
C14_Witness ==
  /\ last.op = "generate" /\ generateOnlyFirst
  /\ last.again /\ last.writesBefore = 1
  /\ Len(last.rows) = 2
  /\ last.rows[1].held /\ ~last.rows[1].wrote
  /\ last.rows[2].wrote /\ last.writes = 1

\* what compute finds in the current store for the node
computed ==
  compute(store, node.formulaTemplate, node.argumentVector,
          [value |-> FALSE, isGenerated |-> FALSE, replacements |-> EmptyMap])

\* C15: generate without candidate rows returns what compute returns: the
\* search result, value true exactly when it has a row, isGenerated false;
\* the store and the output structure are as before the call.
C15_EmptyRowsFallBack ==
  (last.op = "generate" /\ rowCount(node.replacements) = 0) =>
    /\ last.writes = 0 /\ last.rows = <<>> /\ ~last.thrown
    /\ last.after = last.before
    /\ outputStructure = last.outputBefore
    /\ ~last.isGenerated
    /\ last.replacements = computed.replacements
    /\ last.value = (rowCount(last.replacements) > 0)

\* C15 witness: generate without candidate rows returned two found rows.
C15_Witness ==
  /\ last.op = "generate" /\ rowCount(node.replacements) = 0
  /\ last.value /\ rowCount(last.replacements) = 2

\* the params of the rows the latest generate wrote, in row order
RECURSIVE writtenParams(_)
writtenParams(n) ==
  IF n = 0 THEN <<>>
  ELSE IF last.rows[n].wrote THEN Append(writtenParams(n - 1), last.rows[n].params)
       ELSE writtenParams(n - 1)

\* the variable universe of the node: the names of the candidate rows and the
\* variables of the template
nodeVarNames == getKeySet(node.replacements) \cup getVarNames(node.formulaTemplate)

\* C16: the table generate returns over non-empty candidate rows has one row
\* per written row, in row order; when a row was written every name of the
\* variable universe is a key, every key holds one value per row, a name the
\* row's params bind holds the params' value and a name only the
\* instantiation binds holds the node of the written instance.
C16_AlignedResult ==
  (last.op = "generate" /\ rowCount(node.replacements) > 0 /\ ~last.thrown) =>
    LET written == writtenParams(Len(last.rows))
        table == last.replacements
    IN  /\ aligned(table)
        /\ rowCount(table) = last.writes
        /\ Len(written) = last.writes
        /\ last.writes > 0 => DOMAIN table = nodeVarNames
        /\ \A n \in DOMAIN table : \A k \in 1..Len(written) :
             IF n \in DOMAIN written[k]
             THEN table[n][k] = written[k][n]
             ELSE \E f \in last.after \ last.before :
                    /\ f.t = node.formulaTemplate
                    /\ f.b[n] = table[n][k]
                    /\ \A m \in DOMAIN written[k] \cap DOMAIN f.b :
                         f.b[m] = written[k][m]

\* C16 witness: one written row whose y is the node the instantiation
\* created, in a table with the columns x and y.
C16_Witness ==
  /\ last.op = "generate" /\ ~last.thrown /\ last.writes = 1
  /\ DOMAIN last.replacements = {"x", "y"}
  /\ "y" \notin DOMAIN node.replacements
  /\ last.replacements["y"][1] \notin Elems

\* names of the variable universe of a row of an attempt that neither the
\* instantiation's bindings nor the row's params hold
lostNames(formula, params) ==
  (DOMAIN params \cup getVarNames(formula.conclusion))
    \ (resultNames(formula.conclusion) \cup DOMAIN params)

\* number of rows of an attempt that were written
wroteCount(a) == Cardinality({j \in 1..Len(a.rows) : a.rows[j].wrote})

\* C17: an attempt throws exactly when a row it wrote has a name that neither
\* the instantiation's bindings nor the row's params hold; that row is the
\* last row processed, the attempt is the last of the episode, which ends
\* with the invalid-state error and no return value, and the table built so
\* far holds the rows written before, aligned, without the failing row.
C17_InvalidStatePropagates ==
  /\ \A i \in 1..Len(attempts) :
       LET a == attempts[i]
       IN  /\ a.thrown <=>
                \E j \in 1..Len(a.rows) :
                  a.rows[j].wrote /\ lostNames(a.formula, a.rows[j].params) # {}
           /\ a.thrown =>
                /\ i = Len(attempts)
                /\ pc = "error" /\ thrown = "InvalidState" /\ returned = "none"
                /\ a.rows # <<>> /\ a.rows[Len(a.rows)].wrote
                /\ lostNames(a.formula, a.rows[Len(a.rows)].params) # {}
                /\ aligned(a.replacements)
                /\ rowCount(a.replacements) = wroteCount(a) - 1
  /\ thrown = "InvalidState" => (attempts # <<>> /\ attempts[Len(attempts)].thrown)

\* C17 witness: the episode ended with the error at the first of two
\* candidate rows, after an earlier formula had fired, with a formula still
\* waiting in the queue.
C17_Witness ==
  /\ pc = "error" /\ thrown = "InvalidState"
  /\ Len(attempts) >= 2 /\ fired(1)
  /\ Len(attempts[Len(attempts)].rows) = 1
  /\ rowCount(searchTemplate(store, attempts[Len(attempts)].formula.premise, EmptyMap)) = 2
  /\ Len(uncheckedFormulas) >= 2

\* C18: with no tier and the target satisfied at entry false is returned and
\* no error is raised; the configuration error is raised exactly when there
\* is no tier and the target is not satisfied at entry.
C18_TargetTestBeforeValidation ==
  /\ (pc # "idle" /\ formulasQueuesByPriority = <<>> /\ achievedAtEntry) =>
       (pc = "done" /\ returned = FALSE /\ thrown = "none")
  /\ thrown = "ItemNotFound" <=>
       (pc # "idle" /\ formulasQueuesByPriority = <<>> /\ ~achievedAtEntry)

\* C18 witness: false was returned for an empty tier set after the target
\* test had found the target in the store.
C18_Witness ==
  /\ pc = "done" /\ returned = FALSE /\ thrown = "none"
  /\ formulasQueuesByPriority = <<>> /\ achievedAtEntry
  /\ searchCalls >= 1

\* C19: an attempt that generates nothing appends its formula to checked,
\* also when the next attempt is in the next tier (checked is kept across
\* tiers); after a firing that does not reach the target checked is empty
\* (the fired formula is not put there) and the working queue is the current
\* queue without its front, followed by the formulas that were in checked;
\* when that queue is empty the next attempt is the front of the tier of
\* index 1.
C19_CheckedKeptAcrossTiers ==
  \A i \in 1..(Len(attempts) - 1) :
    LET a == attempts[i]
        b == attempts[i + 1]
        requeued == Tail(a.queue) \o a.checked
    IN  /\ ~a.isGenerated =>
             /\ b.checked = Append(a.checked, a.formula)
             /\ IF Tail(a.queue) # <<>>
                THEN b.queue = Tail(a.queue) /\ b.tier = a.tier
                ELSE b.queue = formulasQueuesByPriority[b.tier + 1] /\ b.tier > a.tier
        /\ fired(i) =>
             /\ b.checked = <<>>
             /\ IF requeued # <<>>
                THEN b.queue = requeued /\ b.tier = 0
                ELSE b.queue = formulasQueuesByPriority[2] /\ b.tier = 1

\* C19 witness: a formula failed in the first tier; a firing in the second
\* tier, with another formula still waiting, requeued it, and it was tried
\* again later.
C19_Witness ==
  \E i \in 1..Len(attempts) : \E j \in (i + 1)..Len(attempts) :
    /\ fired(i) /\ tierOf(attempts[i].formula) = 1
    /\ Len(attempts[i].queue) >= 2
    /\ attempts[i].checked # <<>>
    /\ tierOf(attempts[i].checked[1]) = 0
    /\ attempts[j].formula = attempts[i].checked[1]

\* the facts the latest call added to the store
lastAdded == last.after \ last.before

\* C20: when generate throws, the row it threw for is the last row processed
\* and its instance is in the store; the store holds everything it held
\* before and one new instance per written row; of the new instances all but
\* the one of the failing row are in the output structure.
C20_ThrowKeepsWrite ==
  (last.op = "generate" /\ last.thrown) =>
    LET k == Len(last.rows)
        p == last.rows[k].params
    IN  /\ last.rows[k].wrote /\ ~last.rows[k].held
        /\ store = last.after /\ last.before \subseteq last.after
        /\ last.writes >= 1
        /\ Cardinality(lastAdded) = last.writes
        /\ \E f \in lastAdded :
             /\ f.t = node.formulaTemplate
             /\ \A m \in DOMAIN p \cap DOMAIN f.b : f.b[m] = p[m]
             /\ f \notin outputStructure
        /\ Cardinality(lastAdded \cap outputStructure) = last.writes - 1
        /\ last.outputBefore \subseteq outputStructure

\* C20 witness: generate skipped the first row for its match, wrote the
\* second row and threw; the new instance is in the store and not in the
\* output structure.
C20_Witness ==
  /\ last.op = "generate" /\ last.thrown
  /\ Len(last.rows) = 2 /\ last.rows[1].held /\ last.rows[2].wrote
  /\ Cardinality(lastAdded) = 1 /\ lastAdded \cap outputStructure = {}

====
